---- MODULE Spec2Model ----
(***************************************************************************)
(* The challenge / payment reconciliation core of the Pneuma Games bot     *)
(* (src/src/index.ts): the in-memory maps, the interaction-response        *)
(* handler (payment confirmation, accept/decline), the /challenge command, *)
(* the /api/request-payment and /api/score endpoints, sendPrize and the    *)
(* purge timers.  The bot is a single-threaded event loop: a handler runs  *)
(* without interruption up to its next `await`, where other handlers may   *)
(* run.  A handler that waits for the chain (waitForTransactionReceipt on a *)
(* payment, sendPrize) is two actions: the segment that receives the event *)
(* and the segment that resumes from the chain wait.  The awaits of the    *)
(* messaging transport (sendMessage, sendInteractionRequest) are taken to  *)
(* complete at once, so the code after them belongs to the same segment;   *)
(* the messages themselves are not part of the state.                      *)
(***************************************************************************)
EXTENDS Integers, Sequences, FiniteSets, Bags, TLC

\* ------------------------------------------------------------------ bounds
MaxClock == 1
MaxObjects == 3
MaxCallbacks == 2
MaxScores == 3
MaxRefunds == 2

\* ------------------------------------------------------- program constants
ENTRY_FEE == 100000
CHALLENGE_FEE == 200000
MaxScore == 100000
ClockSkew == 60000

Users == {"alice", "bob", "carol"}
\* the platform's display name of a user, as carried by a mention
NameOf(u) == IF u = "alice" THEN "Alice" ELSE IF u = "bob" THEN "Bob" ELSE "Carol"
\* `displayName` of a score submission: absent ("" is falsy) or given
DisplayNames == {"", "Ace"}
\* score inputs: two valid values and the two values next to the valid range
ScoreInputs == {-1, 650, 800, MaxScore + 1}
\* transaction hashes a callback may carry; "" is the absent (falsy) hash
NoHash == ""
Hashes == {"txA", "txR"}
\* the chain: the receipt status of a mined transaction
ChainStatus(hash) == IF hash = "txR" THEN "reverted" ELSE "success"
\* how waitForTransactionReceipt can end for a hash: with the receipt, with a
\* timeout error (message contains "timed out"), or with another error
VerifyOutcomes(hash) == {ChainStatus(hash), "timeout", "error"}

\* a nullable score: <<>> is null, <<s>> is the number s
NoScore == <<>>
Some(s) == <<s>>
\* an absent challengeId in a score submission
NoId == -1
ChallengeIds == 0..MaxClock

\* payment identifiers: `challenge-init-<id>`, `challenge-accept-<id>`,
\* `play-<userId>-<now>`
ChallengeInitId(cid) == [kind |-> "challenge-init", user |-> "", t |-> cid]
ChallengeAcceptId(cid) == [kind |-> "challenge-accept", user |-> "", t |-> cid]
PlayId(u, t) == [kind |-> "play", user |-> u, t |-> t]
PaymentIds ==
    {ChallengeInitId(c) : c \in ChallengeIds} \cup
    {ChallengeAcceptId(c) : c \in ChallengeIds} \cup
    {PlayId(u, t) : u \in Users, t \in ChallengeIds}

VARIABLES
    now,                \* Date.now()
    nextObj,            \* allocation stamp of the next object created
    playerStats,        \* Map userId -> PlayerStats
    pendingChallenges,  \* Map challengeId -> PendingChallenge
    pendingPayments,    \* Map paymentId -> PendingPayment
    confirmedPayments,  \* Set of paymentIds
    totalGamesPlayed,
    jackpotPool,
    timers,             \* bag of scheduled setTimeout callbacks
    inflight,           \* bag of handlers suspended at an await
    prizes,             \* bag: the sendPrize calls made so far, with their outcome
    nCallbacks,         \* number of transaction responses taken for processing
    response,           \* HTTP status of the last /api/score response (0: none yet)
    body                \* the JSON body of the last response of the HTTP API

\* the JSON bodies of the HTTP API, by the fields that are modelled: none sent
\* yet, { error }, the /api/score bodies with challengeComplete (waiting for
\* the opponent: false, settled: true) and without it (solo play)
NoBody == [kind |-> "none"]
ErrorBody == [kind |-> "error"]
ScoreBody(challengeComplete) ==
    [kind |-> "score", success |-> TRUE, challengeComplete |-> challengeComplete]
SoloBody == [kind |-> "score", success |-> TRUE]

stores == <<playerStats, pendingChallenges, pendingPayments, confirmedPayments,
            totalGamesPlayed, jackpotPool>>
vars == <<now, nextObj, playerStats, pendingChallenges, pendingPayments,
          confirmedPayments, totalGamesPlayed, jackpotPool, timers, inflight,
          prizes, nCallbacks, response, body>>

\* ----------------------------------------------------------------- helpers
Put(bag, x) == bag (+) SetToBag({x})
Take(bag, x) == bag (-) SetToBag({x})
RECURSIVE SumOver(_, _)
SumOver(S, f) ==
    IF S = {} THEN 0
    ELSE LET x == CHOOSE y \in S : TRUE IN f[x] + SumOver(S \ {x}, f)
\* number of elements of a bag that satisfy a test given as a set of elements
CountIn(bag, S) == SumOver(BagToSet(bag) \cap S, bag)
MapDelete(m, k) == [x \in DOMAIN m \ {k} |-> m[x]]
MapSet(m, k, v) == [x \in DOMAIN m \cup {k} |-> IF x = k THEN v ELSE m[x]]

Init ==
    /\ now = 0
    /\ nextObj = 1
    /\ playerStats = <<>>
    /\ pendingChallenges = <<>>
    /\ pendingPayments = <<>>
    /\ confirmedPayments = {}
    /\ totalGamesPlayed = 0
    /\ jackpotPool = 0
    /\ timers = EmptyBag
    /\ inflight = EmptyBag
    /\ prizes = EmptyBag
    /\ nCallbacks = 0
    /\ response = 0
    /\ body = NoBody

\* the clock advances between events
Tick ==
    /\ now < MaxClock
    /\ now' = now + 1
    /\ UNCHANGED <<nextObj, stores, timers, inflight, prizes, nCallbacks, response,
                   body>>

\* ------------------------------------------------------------ player stats
\* getOrCreatePlayerStats: the map with a zeroed record for userId if it had none
getOrCreatePlayerStats(ps, userId, displayName) ==
    IF userId \in DOMAIN ps THEN ps
    ELSE MapSet(ps, userId,
                [displayName |-> displayName, gamesPlayed |-> 0, bestScore |-> 0,
                 totalScore |-> 0, challengesWon |-> 0, challengesLost |-> 0,
                 earnings |-> 0])

\* an update that takes the last score as the best one
updatePlayerStatsLastIsBest(ps, userId, displayName, score) ==
    LET ps1 == getOrCreatePlayerStats(ps, userId, displayName)
        st == ps1[userId]
    IN  [ps1 EXCEPT ![userId] =
            [st EXCEPT !.gamesPlayed = st.gamesPlayed + 1,
                       !.totalScore = st.totalScore + score,
                       !.bestScore = score]]
\* updatePlayerStats
updatePlayerStats(ps, userId, displayName, score) ==
    LET ps1 == getOrCreatePlayerStats(ps, userId, displayName)
        st == ps1[userId]
    IN  [ps1 EXCEPT ![userId] =
            [st EXCEPT !.gamesPlayed = st.gamesPlayed + 1,
                       !.totalScore = st.totalScore + score,
                       !.bestScore = IF score > st.bestScore THEN score ELSE st.bestScore]]

\* ---------------------------------------------------------------- handlers
NoPid == [kind |-> "", user |-> "", t |-> NoId]

\* a transaction-response handler suspended in waitForTransactionReceipt; it
\* holds `pending`
\* (the PendingPayment object it read from the map: its stamp, type and
\* challengeId) and `tx`
TxHandler(pid, pending, hash) ==
    [kind |-> "tx", pid |-> pid, pobj |-> pending.obj,
     ptype |-> pending.type, cid |-> pending.challengeId, hash |-> hash,
     to |-> "", amount |-> 0, cobj |-> 0]

\* a handler suspended in sendPrize
\* (kind "score": the settlement of /api/score; kind "decline": the refund)
PrizeHandler(kind, challenge, to, amount) ==
    [kind |-> kind, pid |-> NoPid, pobj |-> 0, ptype |-> "",
     cid |-> challenge.id, hash |-> NoHash, to |-> to,
     amount |-> amount, cobj |-> challenge.obj]

\* one sendPrize call, as logged when it is made (result "pending") and when it
\* returns (result "hash" or "null"; attempted: execute was called; issued:
\* execute returned the hash of a submitted transfer)
PrizeCall(h, result, attempted, issued) ==
    [to |-> h.to, amount |-> h.amount, cobj |-> h.cobj, why |-> h.kind,
     result |-> result, attempted |-> attempted, issued |-> issued]

\* a /challenge that lets the issuer challenge themselves
OnChallengeCommandOfSelf(userId, mentions) ==
    IF Len(mentions) = 0
    THEN UNCHANGED vars
    ELSE
        LET targetId == mentions[1]
            challengeId == now
            paymentId == ChallengeInitId(challengeId)
            selfMention == {i \in 1..Len(mentions) : mentions[i] = userId}
        IN
        /\ nextObj <= MaxObjects
        /\ pendingPayments' = MapSet(pendingPayments, paymentId,
                [userId |-> userId, type |-> "challenge-initiator",
                 challengeId |-> challengeId, status |-> "pending", obj |-> nextObj])
        /\ pendingChallenges' = MapSet(pendingChallenges, challengeId,
                [id |-> challengeId, challengerId |-> userId,
                 challengerName |-> IF selfMention = {} THEN "Player" ELSE NameOf(userId),
                 targetId |-> targetId, targetName |-> NameOf(targetId),
                 wager |-> CHALLENGE_FEE,
                 challengerPaid |-> FALSE, targetPaid |-> FALSE,
                 challengerScore |-> NoScore, targetScore |-> NoScore,
                 createdAt |-> now, challengerTxHash |-> NoHash,
                 targetTxHash |-> NoHash, obj |-> nextObj])
        /\ nextObj' = nextObj + 1
        /\ UNCHANGED <<now, playerStats, confirmedPayments, totalGamesPlayed,
                       jackpotPool, timers, inflight, prizes, nCallbacks, response,
                   body>>
\* /challenge command.  `mentions` is the list of mentioned users
\* (event.mentions); the reply to a rejected command is not part of the state.
OnChallengeCommand(userId, mentions) ==
    IF Len(mentions) = 0 \/ mentions[1] = userId
    THEN UNCHANGED vars
    ELSE
        LET targetId == mentions[1]
            challengeId == now
            paymentId == ChallengeInitId(challengeId)
            selfMention == {i \in 1..Len(mentions) : mentions[i] = userId}
        IN
        /\ nextObj <= MaxObjects
        /\ pendingPayments' = MapSet(pendingPayments, paymentId,
                [userId |-> userId, type |-> "challenge-initiator",
                 challengeId |-> challengeId, status |-> "pending", obj |-> nextObj])
        /\ pendingChallenges' = MapSet(pendingChallenges, challengeId,
                [id |-> challengeId, challengerId |-> userId,
                 challengerName |-> IF selfMention = {} THEN "Player" ELSE NameOf(userId),
                 targetId |-> targetId, targetName |-> NameOf(targetId),
                 wager |-> CHALLENGE_FEE,
                 challengerPaid |-> FALSE, targetPaid |-> FALSE,
                 challengerScore |-> NoScore, targetScore |-> NoScore,
                 createdAt |-> now, challengerTxHash |-> NoHash,
                 targetTxHash |-> NoHash, obj |-> nextObj])
        /\ nextObj' = nextObj + 1
        /\ UNCHANGED <<now, playerStats, confirmedPayments, totalGamesPlayed,
                       jackpotPool, timers, inflight, prizes, nCallbacks, response,
                   body>>

\* POST /api/request-payment
OnRequestPayment(userId) ==
    LET paymentId == PlayId(userId, now) IN
    /\ nextObj <= MaxObjects
    /\ pendingPayments' = MapSet(pendingPayments, paymentId,
            [userId |-> userId, type |-> "play", challengeId |-> NoId,
             status |-> "pending", obj |-> nextObj])
    /\ nextObj' = nextObj + 1
    /\ UNCHANGED <<now, playerStats, pendingChallenges, confirmedPayments,
                   totalGamesPlayed, jackpotPool, timers, inflight, prizes, nCallbacks, response,
                   body>>

\* a handler that does not record the status
SetStatusDropped(pp, h, s) == pp
\* `pending.status = s` on the object a handler holds: it shows in the map only
\* while the map still holds that object under the handler's requestId
SetStatus(pp, h, s) ==
    IF h.pid \in DOMAIN pp /\ pp[h.pid].obj = h.pobj
    THEN [pp EXCEPT ![h.pid].status = s]
    ELSE pp

\* a purge timer: after 30 s for a failure, after 5 min for a confirmation
Timer(pid, confirmed) == [pid |-> pid, confirmed |-> confirmed]

\* a handler that takes an unknown requestId for a failed payment
OnTransactionResponseOfUnknown(requestId, txHash) ==
    IF requestId \notin DOMAIN pendingPayments
    THEN /\ timers' = Put(timers, Timer(requestId, FALSE))
         /\ UNCHANGED <<now, nextObj, stores, inflight, prizes, nCallbacks, response,
                        body>>
    ELSE
        LET pending == pendingPayments[requestId] IN
        /\ nCallbacks < MaxCallbacks
        /\ nCallbacks' = nCallbacks + 1
        /\ IF txHash # NoHash
           THEN /\ inflight' = Put(inflight, TxHandler(requestId, pending, txHash))
                /\ UNCHANGED <<pendingPayments, timers>>
           ELSE /\ pendingPayments' = [pendingPayments EXCEPT ![requestId].status = "failed"]
                /\ timers' = Put(timers, Timer(requestId, FALSE))
                /\ UNCHANGED inflight
        /\ UNCHANGED <<now, nextObj, playerStats, pendingChallenges, confirmedPayments,
                       totalGamesPlayed, jackpotPool, prizes, response, body>>
\* bot.onInteractionResponse, case 'transaction': from the event to the receipt
\* wait when a hash is given, and to the end otherwise
OnTransactionResponse(requestId, txHash) ==
    IF requestId \notin DOMAIN pendingPayments
    THEN UNCHANGED vars
    ELSE
        LET pending == pendingPayments[requestId] IN
        /\ nCallbacks < MaxCallbacks
        /\ nCallbacks' = nCallbacks + 1
        /\ IF txHash # NoHash
           THEN /\ inflight' = Put(inflight, TxHandler(requestId, pending, txHash))
                /\ UNCHANGED <<pendingPayments, timers>>
           ELSE /\ pendingPayments' = [pendingPayments EXCEPT ![requestId].status = "failed"]
                /\ timers' = Put(timers, Timer(requestId, FALSE))
                /\ UNCHANGED inflight
        /\ UNCHANGED <<now, nextObj, playerStats, pendingChallenges, confirmedPayments,
                       totalGamesPlayed, jackpotPool, prizes, response, body>>

\* the challenge of a verified leg, with its paid flag and tx hash set
MarkPaid(challenge, h) ==
    IF h.ptype = "challenge-initiator"
    THEN [challenge EXCEPT !.challengerPaid = TRUE, !.challengerTxHash = h.hash]
    ELSE [challenge EXCEPT !.targetPaid = TRUE, !.targetTxHash = h.hash]

\* the transaction-response handler resumes from waitForTransactionReceipt with
\* `outcome` and runs to its end
TxVerified(h, outcome) ==
    /\ h.kind = "tx"
    /\ outcome \in VerifyOutcomes(h.hash)
    /\ inflight' = Take(inflight, h)
    /\ CASE outcome = "reverted" ->
                /\ pendingPayments' = SetStatus(pendingPayments, h, "failed")
                /\ timers' = Put(timers, Timer(h.pid, FALSE))
                /\ UNCHANGED <<pendingChallenges, confirmedPayments>>
         [] outcome = "success" /\ h.ptype = "play" ->
                /\ pendingPayments' = SetStatus(pendingPayments, h, "confirmed")
                /\ confirmedPayments' = confirmedPayments \cup {h.pid}
                /\ timers' = Put(timers, Timer(h.pid, TRUE))
                /\ UNCHANGED pendingChallenges
         [] outcome = "success" /\ h.ptype # "play" ->
                IF h.cid \notin DOMAIN pendingChallenges
                THEN UNCHANGED <<pendingPayments, pendingChallenges, confirmedPayments,
                                 timers>>
                ELSE /\ pendingChallenges' =
                            [pendingChallenges EXCEPT ![h.cid] = MarkPaid(@, h)]
                     /\ pendingPayments' = MapDelete(pendingPayments, h.pid)
                     /\ UNCHANGED <<confirmedPayments, timers>>
         [] outcome = "timeout" ->
                /\ pendingPayments' = SetStatus(pendingPayments, h, "confirmed")
                /\ confirmedPayments' = confirmedPayments \cup {h.pid}
                /\ timers' = Put(timers, Timer(h.pid, TRUE))
                /\ UNCHANGED pendingChallenges
         [] outcome = "error" ->
                /\ pendingPayments' = SetStatus(pendingPayments, h, "failed")
                /\ timers' = Put(timers, Timer(h.pid, FALSE))
                /\ UNCHANGED <<pendingChallenges, confirmedPayments>>
    /\ UNCHANGED <<now, nextObj, playerStats, totalGamesPlayed, jackpotPool,
                   prizes, nCallbacks, response, body>>

\* a setTimeout callback runs
TimerFires(t) ==
    /\ timers' = Take(timers, t)
    /\ pendingPayments' = MapDelete(pendingPayments, t.pid)
    /\ confirmedPayments' = IF t.confirmed THEN confirmedPayments \ {t.pid}
                            ELSE confirmedPayments
    /\ UNCHANGED <<now, nextObj, playerStats, pendingChallenges, totalGamesPlayed,
                   jackpotPool, inflight, prizes, nCallbacks, response,
                   body>>

\* the sendPrize calls logged for refunds
Refunds == {c \in BagToSet(prizes) : c.why = "decline"}

\* a form branch that takes the answer of any user for the target's
OnFormResponseOfAnyone(challengeId, userId, button) ==
    IF challengeId \notin DOMAIN pendingChallenges
    THEN UNCHANGED vars
    ELSE
        LET challenge == pendingChallenges[challengeId] IN
        IF button = "accept"
        THEN /\ nextObj <= MaxObjects
             /\ pendingPayments' = MapSet(pendingPayments, ChallengeAcceptId(challengeId),
                    [userId |-> userId, type |-> "challenge-acceptor",
                     challengeId |-> challengeId, status |-> "pending", obj |-> nextObj])
             /\ nextObj' = nextObj + 1
             /\ UNCHANGED <<now, playerStats, pendingChallenges, confirmedPayments,
                            totalGamesPlayed, jackpotPool, timers, inflight, prizes,
                            nCallbacks, response,
                   body>>
        ELSE LET h == PrizeHandler("decline", challenge,
                                   challenge.challengerId, CHALLENGE_FEE) IN
             /\ CountIn(prizes, Refunds) < MaxRefunds
             /\ prizes' = Put(prizes, PrizeCall(h, "pending", FALSE, FALSE))
             /\ inflight' = Put(inflight, h)
             /\ UNCHANGED <<now, nextObj, stores, timers, nCallbacks, response,
                   body>>
\* bot.onInteractionResponse, case 'form': the accept/decline response
\* `challenge-response-<challengeId>` of `userId` with the pressed button,
\* from the event to its end (accept) or to the sendPrize of the refund
\* (decline)
OnFormResponse(challengeId, userId, button) ==
    IF challengeId \notin DOMAIN pendingChallenges
       \/ userId # pendingChallenges[challengeId].targetId
    THEN UNCHANGED vars
    ELSE
        LET challenge == pendingChallenges[challengeId] IN
        IF button = "accept"
        THEN /\ nextObj <= MaxObjects
             /\ pendingPayments' = MapSet(pendingPayments, ChallengeAcceptId(challengeId),
                    [userId |-> userId, type |-> "challenge-acceptor",
                     challengeId |-> challengeId, status |-> "pending", obj |-> nextObj])
             /\ nextObj' = nextObj + 1
             /\ UNCHANGED <<now, playerStats, pendingChallenges, confirmedPayments,
                            totalGamesPlayed, jackpotPool, timers, inflight, prizes,
                            nCallbacks, response,
                   body>>
        ELSE LET h == PrizeHandler("decline", challenge,
                                   challenge.challengerId, CHALLENGE_FEE) IN
             /\ CountIn(prizes, Refunds) < MaxRefunds
             /\ prizes' = Put(prizes, PrizeCall(h, "pending", FALSE, FALSE))
             /\ inflight' = Put(inflight, h)
             /\ UNCHANGED <<now, nextObj, stores, timers, nCallbacks, response,
                   body>>

\* ---------------------------------------------------------------- sendPrize
\* how a sendPrize call can go: the recipient has no smart account, resolving
\* it throws, execute throws, the receipt is not a success, the receipt wait
\* throws, or the transfer is confirmed
SendPrizeOutcomes ==
    {"no-account", "resolve-error", "execute-error", "reverted", "receipt-error", "success"}
\* a sendPrize that returns the hash as soon as the transfer is submitted
sendPrizeHashOnSubmit(outcome) ==
    IF outcome \in {"reverted", "receipt-error", "success"} THEN "hash" ELSE "null"
\* what sendPrize returns: the hash, or null
sendPrize(outcome) == IF outcome = "success" THEN "hash" ELSE "null"
\* a sendPrize that calls execute whatever the resolution gave
TransferAlwaysAttempted(outcome) == outcome # "resolve-error"
\* whether the recipient resolved to an address, so that execute was called
TransferAttempted(outcome) == outcome \notin {"no-account", "resolve-error"}
\* whether execute was called and returned a transaction hash
TransferIssued(outcome) == outcome \in {"reverted", "receipt-error", "success"}

\* the log of sendPrize calls when the call of handler h returns
PrizeLogged(h, outcome) ==
    Put(Take(prizes, PrizeCall(h, "pending", FALSE, FALSE)),
        PrizeCall(h, sendPrize(outcome), TransferAttempted(outcome),
                  TransferIssued(outcome)))

\* a decline that books a loss for the recipient of the refund
DeclineRefundedCountsLoss(h, outcome) ==
    /\ h.kind = "decline"
    /\ prizes' = PrizeLogged(h, outcome)
    /\ pendingChallenges' = MapDelete(pendingChallenges, h.cid)
    /\ inflight' = Take(inflight, h)
    /\ playerStats' =
          LET ps1 == getOrCreatePlayerStats(playerStats, h.to, "Player")
          IN  [ps1 EXCEPT ![h.to].challengesLost = @ + 1]
    /\ UNCHANGED <<now, nextObj, pendingPayments, confirmedPayments,
                   totalGamesPlayed, jackpotPool, timers, nCallbacks, response,
                   body>>
\* the decline branch resumes from sendPrize, sends the decline message and
\* deletes the challenge
DeclineRefunded(h, outcome) ==
    /\ h.kind = "decline"
    /\ prizes' = PrizeLogged(h, outcome)
    /\ pendingChallenges' = MapDelete(pendingChallenges, h.cid)
    /\ inflight' = Take(inflight, h)
    /\ UNCHANGED <<now, nextObj, playerStats, pendingPayments, confirmedPayments,
                   totalGamesPlayed, jackpotPool, timers, nCallbacks, response,
                   body>>

\* -------------------------------------------------------------- /api/score
\* a validation that forgets the upper end of the score range
ValidScoreNoUpperBound(score, timestamp) ==
    /\ ~(score < 0)
    /\ ~(timestamp < 0 \/ timestamp > now + ClockSkew)
\* the input validation of /api/score (userId is given, score and timestamp
\* are numbers)
ValidScore(score, timestamp) ==
    /\ ~(score < 0 \/ score > MaxScore)
    /\ ~(timestamp < 0 \/ timestamp > now + ClockSkew)

\* the revenue split
TotalPrize == CHALLENGE_FEE * 2
BotCut == TotalPrize \div 100
\* a split that forgets to take the bot's cut out of the winner's prize
WinnerPrizeWholePool == TotalPrize
WinnerPrize == TotalPrize - BotCut

\* a recording that forgets the score
RecordScoreDropped(challenge, userId, score) == challenge
\* the challenge after `userId` submitted `score` for it
RecordScore(challenge, userId, score) ==
    IF userId = challenge.challengerId THEN [challenge EXCEPT !.challengerScore = Some(score)]
    ELSE IF userId = challenge.targetId THEN [challenge EXCEPT !.targetScore = Some(score)]
    ELSE challenge

BothFinished(challenge) ==
    challenge.challengerScore # NoScore /\ challenge.targetScore # NoScore

\* a selection that gives a tie to the challenger
WinnerOfTieToChallenger(challenge) ==
    IF challenge.challengerScore[1] >= challenge.targetScore[1]
    THEN challenge.challengerId ELSE challenge.targetId
WinnerOf(challenge) ==
    IF challenge.challengerScore[1] > challenge.targetScore[1]
    THEN challenge.challengerId ELSE challenge.targetId
LoserOf(challenge) ==
    IF WinnerOf(challenge) = challenge.challengerId
    THEN challenge.targetId ELSE challenge.challengerId
PartyName(challenge, id) ==
    IF id = challenge.challengerId THEN challenge.challengerName ELSE challenge.targetName

\* an update that forgets the loser
SettleStatsLoserUntouched(ps, challenge) ==
    LET winnerId == WinnerOf(challenge)
        ps1 == getOrCreatePlayerStats(ps, winnerId, PartyName(challenge, winnerId))
    IN  [ps1 EXCEPT ![winnerId].challengesWon = @ + 1,
                    ![winnerId].earnings = @ + WinnerPrize]
\* the stats after the win/loss update of a settlement
SettleStats(ps, challenge) ==
    LET winnerId == WinnerOf(challenge)
        loserId == LoserOf(challenge)
        ps1 == getOrCreatePlayerStats(ps, winnerId, PartyName(challenge, winnerId))
        ps2 == getOrCreatePlayerStats(ps1, loserId, PartyName(challenge, loserId))
        ps3 == [ps2 EXCEPT ![winnerId].challengesWon = @ + 1,
                           ![winnerId].earnings = @ + WinnerPrize]
    IN  [ps3 EXCEPT ![loserId].challengesLost = @ + 1]

\* POST /api/score, from the request to its first await (the sendPrize of a
\* settlement) or to its response (400 for a rejected input, 200 otherwise)
OnScore(userId, score, timestamp, displayName, challengeId) ==
    IF ~ValidScore(score, timestamp)
    THEN /\ response' = 400
         /\ body' = ErrorBody
         /\ UNCHANGED <<now, nextObj, stores, timers, inflight, prizes, nCallbacks>>
    ELSE
        LET ps1 == updatePlayerStats(playerStats, userId,
                                     IF displayName # "" THEN displayName ELSE "Player",
                                     score)
        IN
        /\ totalGamesPlayed < MaxScores
        /\ totalGamesPlayed' = totalGamesPlayed + 1
        /\ IF challengeId # NoId /\ challengeId \in DOMAIN pendingChallenges
           THEN LET challenge == RecordScore(pendingChallenges[challengeId], userId, score) IN
                /\ pendingChallenges' = [pendingChallenges EXCEPT ![challengeId] = challenge]
                /\ IF BothFinished(challenge)
                   THEN LET h == PrizeHandler("score", challenge,
                                              WinnerOf(challenge), WinnerPrize) IN
                        /\ playerStats' = SettleStats(ps1, challenge)
                        /\ prizes' = Put(prizes, PrizeCall(h, "pending", FALSE, FALSE))
                        /\ inflight' = Put(inflight, h)
                        /\ UNCHANGED <<response, body>>
                   ELSE /\ playerStats' = ps1
                        /\ response' = 200
                        /\ body' = ScoreBody(FALSE)
                        /\ UNCHANGED <<prizes, inflight>>
                /\ UNCHANGED jackpotPool
           ELSE /\ playerStats' = ps1
                /\ jackpotPool' = jackpotPool + ENTRY_FEE \div 10
                /\ response' = 200
                /\ body' = SoloBody
                /\ UNCHANGED <<pendingChallenges, prizes, inflight>>
        /\ UNCHANGED <<now, nextObj, pendingPayments, confirmedPayments, timers, nCallbacks>>

\* ------------------------------------------------------ /api/check-payment
\* the status that /api/check-payment answers for paymentId when the map is pp
checkPayment(pp, paymentId) ==
    IF paymentId \notin DOMAIN pp THEN "not_found"
    ELSE IF pp[paymentId].status = "confirmed" THEN "confirmed"
    ELSE IF pp[paymentId].status = "failed" THEN "failed"
    ELSE "pending"

\* ---------------------------------------------------- /api/check-challenge
\* whether userId is the challenger or the target of the challenge
isInvolved(challenge, userId) ==
    challenge.challengerId = userId \/ challenge.targetId = userId

\* the first challenge of pendingChallenges.entries() that userId is involved
\* in.  The Map iterates in insertion order, and the keys are inserted in the
\* order of their Date.now(), so the first entry is the one with the least id
FirstInvolved(userId) ==
    LET S == {cid \in DOMAIN pendingChallenges :
                 isInvolved(pendingChallenges[cid], userId)}
    IN  IF S = {} THEN NoId ELSE CHOOSE cid \in S : \A d \in S : cid <= d

\* the body that /api/check-challenge answers to userId
checkChallenge(userId) ==
    LET cid == FirstInvolved(userId) IN
    IF cid = NoId THEN [kind |-> "challenge", hasChallenge |-> FALSE]
    ELSE LET challenge == pendingChallenges[cid] IN
         IF challenge.challengerPaid /\ challenge.targetPaid
         THEN [kind |-> "challenge", hasChallenge |-> TRUE, challengeId |-> cid,
               isPaid |-> TRUE,
               hasPlayed |-> IF challenge.challengerId = userId
                             THEN challenge.challengerScore # NoScore
                             ELSE challenge.targetScore # NoScore,
               opponentName |-> IF challenge.challengerId = userId
                                THEN challenge.targetName
                                ELSE challenge.challengerName,
               wager |-> challenge.wager]
         ELSE [kind |-> "challenge", hasChallenge |-> TRUE, challengeId |-> cid,
               isPaid |-> FALSE]

\* POST /api/check-challenge with a userId
OnCheckChallenge(userId) ==
    /\ body' = checkChallenge(userId)
    /\ UNCHANGED <<now, nextObj, stores, timers, inflight, prizes, nCallbacks, response>>

\* a settlement that leaves the challenge in the map
SettlementPaidKeepsChallenge(h, outcome) ==
    /\ h.kind = "score"
    /\ prizes' = PrizeLogged(h, outcome)
    /\ inflight' = Take(inflight, h)
    /\ response' = 200
    /\ body' = ScoreBody(TRUE)
    /\ UNCHANGED <<now, nextObj, playerStats, pendingChallenges, pendingPayments,
                   confirmedPayments, totalGamesPlayed, jackpotPool, timers, nCallbacks>>
\* the settlement resumes from sendPrize, sends the result message, deletes the
\* challenge and responds
SettlementPaid(h, outcome) ==
    /\ h.kind = "score"
    /\ prizes' = PrizeLogged(h, outcome)
    /\ pendingChallenges' = MapDelete(pendingChallenges, h.cid)
    /\ inflight' = Take(inflight, h)
    /\ response' = 200
    /\ body' = ScoreBody(TRUE)
    /\ UNCHANGED <<now, nextObj, playerStats, pendingPayments, confirmedPayments,
                   totalGamesPlayed, jackpotPool, timers, nCallbacks>>

\* the settlement resumes from sendPrize and bot.sendMessage throws: the catch
\* of the request answers 500 and the challenge is not deleted
SettlementMessageFails(h, outcome) ==
    /\ h.kind = "score"
    /\ prizes' = PrizeLogged(h, outcome)
    /\ inflight' = Take(inflight, h)
    /\ response' = 500
    /\ body' = ErrorBody
    /\ UNCHANGED <<now, nextObj, playerStats, pendingChallenges, pendingPayments,
                   confirmedPayments, totalGamesPlayed, jackpotPool, timers, nCallbacks>>

\* ------------------------------------------------------------ specification
\* the cast: alice issues challenges, bob is whom she mentions, carol is a
\* third party and the solo player
Challengers == {"alice"}
Mentions == {<<>>, <<"alice">>, <<"bob">>}
SoloPlayers == {"carol"}
Responders == {"bob", "carol"}
Buttons == {"accept", "decline"}
\* score submissions: the valid ones, and one for each validation that rejects
ScoreRequests ==
    {[score |-> v, timestamp |-> now] : v \in ScoreInputs} \cup
    {[score |-> 650, timestamp |-> t] : t \in {-1, now + ClockSkew, now + ClockSkew + 1}}
\* the score submissions that pass the validation
ValidRequests == {r \in ScoreRequests : ValidScore(r.score, r.timestamp)}
AllOutcomes == {"success", "reverted", "timeout", "error"}
ChallengePaymentIds ==
    {ChallengeInitId(c) : c \in ChallengeIds} \cup {ChallengeAcceptId(c) : c \in ChallengeIds}

PlayPaymentIds == {PlayId(u, t) : u \in SoloPlayers, t \in ChallengeIds}
NoName == ""

\* the whole program.  Its state space is the product of those of the three
\* restrictions below, under which the properties are checked.
Next ==
    \/ Tick
    \/ \E u \in Challengers, m \in Mentions : OnChallengeCommand(u, m)
    \/ \E u \in SoloPlayers : OnRequestPayment(u)
    \/ \E pid \in PaymentIds, hash \in Hashes \cup {NoHash} : OnTransactionResponse(pid, hash)
    \/ \E h \in BagToSet(inflight), o \in AllOutcomes : TxVerified(h, o)
    \/ \E t \in BagToSet(timers) : TimerFires(t)
    \/ \E c \in ChallengeIds, u \in Responders, b \in Buttons : OnFormResponse(c, u, b)
    \/ \E h \in BagToSet(inflight), o \in SendPrizeOutcomes : DeclineRefunded(h, o)
    \/ \E u \in Users, r \in ScoreRequests, dn \in DisplayNames, c \in ChallengeIds \cup {NoId} :
            OnScore(u, r.score, r.timestamp, dn, c)
    \/ \E h \in BagToSet(inflight), o \in SendPrizeOutcomes : SettlementPaid(h, o)
    \/ \E h \in BagToSet(inflight), o \in SendPrizeOutcomes : SettlementMessageFails(h, o)
    \/ \E u \in Users : OnCheckChallenge(u)

Spec == Init /\ [][Next]_vars

\* the payment ledger and the accept/decline responses: the program without
\* score submissions
NextLedger ==
    \/ Tick
    \/ \E u \in Challengers, m \in Mentions : OnChallengeCommand(u, m)
    \/ \E u \in SoloPlayers : OnRequestPayment(u)
    \/ \E pid \in PaymentIds, hash \in Hashes \cup {NoHash} : OnTransactionResponse(pid, hash)
    \/ \E h \in BagToSet(inflight), o \in AllOutcomes : TxVerified(h, o)
    \/ \E t \in BagToSet(timers) : TimerFires(t)
    \/ \E c \in ChallengeIds, u \in Responders, b \in Buttons : OnFormResponse(c, u, b)
    \/ \E h \in BagToSet(inflight), o \in SendPrizeOutcomes : DeclineRefunded(h, o)

SpecLedger == Init /\ [][NextLedger]_vars

\* the match: a challenge from its creation to its settlement, with every
\* valid score submission, where each payment callback carries a hash whose
\* receipt is a success, the target accepts, and the clock stands still
NextMatch ==
    \/ \E u \in Challengers, m \in Mentions : OnChallengeCommand(u, m)
    \/ \E pid \in ChallengePaymentIds : OnTransactionResponse(pid, "txA")
    \/ \E h \in BagToSet(inflight) : TxVerified(h, "success")
    \/ \E c \in ChallengeIds, u \in Responders : OnFormResponse(c, u, "accept")
    \/ \E u \in Users, r \in ValidRequests, c \in ChallengeIds \cup {NoId} :
            OnScore(u, r.score, r.timestamp, NoName, c)
    \/ \E h \in BagToSet(inflight), o \in SendPrizeOutcomes : SettlementPaid(h, o)
    \/ \E h \in BagToSet(inflight), o \in SendPrizeOutcomes : SettlementMessageFails(h, o)

SpecMatch == Init /\ [][NextMatch]_vars

\* accept or decline: a challenge whose challenger pays and whose target answers
\* the form, with the refund of a decline, while the two parties submit scores
Parties == {"alice", "bob"}
RefundOutcomes == {"no-account", "reverted", "success"}
NextDecline ==
    \/ \E u \in Challengers, m \in Mentions : OnChallengeCommand(u, m)
    \/ \E c \in ChallengeIds : OnTransactionResponse(ChallengeInitId(c), "txA")
    \/ \E h \in BagToSet(inflight) : TxVerified(h, "success")
    \/ \E c \in ChallengeIds, u \in Responders, b \in Buttons : OnFormResponse(c, u, b)
    \/ \E h \in BagToSet(inflight), o \in RefundOutcomes : DeclineRefunded(h, o)
    \/ \E u \in Parties, c \in ChallengeIds : OnScore(u, 650, now, NoName, c)
    \/ \E h \in BagToSet(inflight), o \in RefundOutcomes : SettlementPaid(h, o)

SpecDecline == Init /\ [][NextDecline]_vars

\* the form: a challenge whose challenger pays, and the accept/decline form
\* answered by every user, with the refund of a decline
NextForm ==
    \/ Tick
    \/ \E u \in Challengers, m \in Mentions : OnChallengeCommand(u, m)
    \/ \E c \in ChallengeIds : OnTransactionResponse(ChallengeInitId(c), "txA")
    \/ \E h \in BagToSet(inflight) : TxVerified(h, "success")
    \/ \E c \in ChallengeIds, u \in Users, b \in Buttons : OnFormResponse(c, u, b)
    \/ \E h \in BagToSet(inflight), o \in SendPrizeOutcomes : DeclineRefunded(h, o)

SpecForm == Init /\ [][NextForm]_vars

\* the challenge poll: challenges at both clock readings, paid and accepted,
\* a score of each party, and the status poll of every user
NextPoll ==
    \/ Tick
    \/ \E u \in Challengers : OnChallengeCommand(u, <<"bob">>)
    \/ \E pid \in ChallengePaymentIds : OnTransactionResponse(pid, "txA")
    \/ \E h \in BagToSet(inflight) : TxVerified(h, "success")
    \/ \E c \in ChallengeIds : OnFormResponse(c, "bob", "accept")
    \/ \E u \in Parties, c \in ChallengeIds : OnScore(u, 650, now, NoName, c)
    \/ \E h \in BagToSet(inflight) : SettlementPaid(h, "success")
    \/ \E u \in Users : OnCheckChallenge(u)

SpecPoll == Init /\ [][NextPoll]_vars

\* paid legs: the two legs of a challenge, each paid with one of two hashes
\* whose receipts are a success, and the target's answers to the form at any
\* time, with the refund of a decline
SuccessHashes == {"txA", "txB"}
NextLegs ==
    \/ Tick
    \/ \E u \in Challengers : OnChallengeCommand(u, <<"bob">>)
    \/ \E pid \in ChallengePaymentIds, hash \in SuccessHashes :
            OnTransactionResponse(pid, hash)
    \/ \E h \in BagToSet(inflight) : TxVerified(h, "success")
    \/ \E c \in ChallengeIds, b \in Buttons : OnFormResponse(c, "bob", b)
    \/ \E h \in BagToSet(inflight), o \in RefundOutcomes : DeclineRefunded(h, o)

SpecLegs == Init /\ [][NextLegs]_vars

\* the settlement, with clients that follow the flow: a challenge is made when
\* none is live, the target accepts once, each leg is paid once, a party plays
\* once, after both legs are paid; sendPrize returns with a hash or with null,
\* after which the result message is sent or fails
MayPlay(u, cid) ==
    /\ cid \in DOMAIN pendingChallenges
    /\ pendingChallenges[cid].challengerPaid /\ pendingChallenges[cid].targetPaid
    /\ \/ u = pendingChallenges[cid].challengerId
          /\ pendingChallenges[cid].challengerScore = NoScore
       \/ u = pendingChallenges[cid].targetId
          /\ pendingChallenges[cid].targetScore = NoScore
MayAccept(cid) ==
    /\ cid \in DOMAIN pendingChallenges
    /\ pendingChallenges[cid].challengerPaid
    /\ ChallengeAcceptId(cid) \notin DOMAIN pendingPayments
    /\ ~pendingChallenges[cid].targetPaid
SettlementReturns ==
    \E h \in BagToSet(inflight), o \in SendPrizeOutcomes :
        SettlementPaid(h, o) \/ SettlementMessageFails(h, o)
NextSettle ==
    \/ Tick
    \/ \E u \in Challengers :
            DOMAIN pendingChallenges = {} /\ OnChallengeCommand(u, <<"bob">>)
    \/ \E pid \in ChallengePaymentIds :
            /\ pid \in DOMAIN pendingPayments
            /\ \A h \in BagToSet(inflight) : h.pid # pid
            /\ OnTransactionResponse(pid, "txA")
    \/ \E h \in BagToSet(inflight) : TxVerified(h, "success")
    \/ \E c \in ChallengeIds : MayAccept(c) /\ OnFormResponse(c, "bob", "accept")
    \/ \E u \in Parties, v \in {650, 800}, c \in ChallengeIds :
            MayPlay(u, c) /\ OnScore(u, v, now, NoName, c)
    \/ SettlementReturns

SpecSettle == Init /\ [][NextSettle]_vars
\* the awaits of a request return: the receipt wait of a payment and the
\* sendPrize of a settlement are promises that settle (sendPrize catches every
\* error), so a suspended handler is resumed
FairSettle ==
    /\ SpecSettle
    /\ WF_vars(\E h \in BagToSet(inflight) : TxVerified(h, "success"))
    /\ WF_vars(SettlementReturns)

\* score intake: every score submission, valid or not, for the challenges
\* created meanwhile and for none, and the settlements they start, while the
\* clock stands still
NextIntake ==
    \/ \E u \in Challengers, m \in Mentions : OnChallengeCommand(u, m)
    \/ \E u \in Users, r \in ScoreRequests, c \in ChallengeIds \cup {NoId} :
            OnScore(u, r.score, r.timestamp, NoName, c)
    \/ \E h \in BagToSet(inflight), o \in SendPrizeOutcomes : SettlementPaid(h, o)

SpecIntake == Init /\ [][NextIntake]_vars

\* solo play: the solo payments with every callback and verification outcome,
\* the purge timers, and the score submissions that name no challenge
NextSolo ==
    \/ Tick
    \/ \E u \in SoloPlayers : OnRequestPayment(u)
    \/ \E pid \in PlayPaymentIds, hash \in Hashes \cup {NoHash} : OnTransactionResponse(pid, hash)
    \/ \E h \in BagToSet(inflight), o \in AllOutcomes : TxVerified(h, o)
    \/ \E t \in BagToSet(timers) : TimerFires(t)
    \/ \E u \in SoloPlayers, r \in ScoreRequests, dn \in DisplayNames :
            OnScore(u, r.score, r.timestamp, dn, NoId)

SpecSolo == Init /\ [][NextSolo]_vars

\* ------------------------------------------------------------------ claims
\* the sendPrize calls logged for the settlement / the refund of challenge object o
PayoutsOf(o) == {p \in BagToSet(prizes) : p.why = "score" /\ p.cobj = o}
RefundsOf(o) == {p \in BagToSet(prizes) : p.why = "decline" /\ p.cobj = o}
Payouts == {p \in BagToSet(prizes) : p.why = "score"}
Live(cid) == cid \in DOMAIN pendingChallenges
BothPaid(c) == c.challengerPaid /\ c.targetPaid
Terminal(pid) ==
    pid \in DOMAIN pendingPayments /\ pendingPayments[pid].status \in {"confirmed", "failed"}
TotalWon == SumOver(DOMAIN playerStats, [u \in DOMAIN playerStats |-> playerStats[u].challengesWon])
TotalLost == SumOver(DOMAIN playerStats, [u \in DOMAIN playerStats |-> playerStats[u].challengesLost])

\* C1: in every reachable state a score field of a live Challenge is non-null
\* only if both paid flags are true, and a settlement (a payout in flight for a
\* live Challenge) runs only for a Challenge with both paid flags true and both
\* scores non-null.
C1_ScoresAndSettlementOnlyWhenPaid ==
    /\ \A cid \in DOMAIN pendingChallenges :
          LET c == pendingChallenges[cid] IN
          (c.challengerScore # NoScore \/ c.targetScore # NoScore) => BothPaid(c)
    /\ \A h \in BagToSet(inflight) :
          (h.kind = "score" /\ Live(h.cid) /\ pendingChallenges[h.cid].obj = h.cobj)
              => BothPaid(pendingChallenges[h.cid]) /\ BothFinished(pendingChallenges[h.cid])

\* C2: under any interleaving of score submissions for one Challenge (here: one
\* whose two legs are paid), at most one prize disbursement is attempted for it
\* and, when it is the only Challenge settled so far, the win and loss counters
\* have been incremented at most once.
C2_AtMostOnePayoutPerChallenge ==
    \A cid \in DOMAIN pendingChallenges :
        LET c == pendingChallenges[cid] IN
        BothPaid(c) =>
            /\ CountIn(prizes, PayoutsOf(c.obj)) <= 1
            /\ Payouts \subseteq PayoutsOf(c.obj) => (TotalWon <= 1 /\ TotalLost <= 1)

\* C3: a declined Challenge (here: one whose challenger leg is paid) gets
\* exactly one refund attempt of the wager (200000) to its challenger over the
\* whole run: never a second one, and every refund is of the wager.
C3_ExactlyOneRefundPerChallenge ==
    /\ \A cid \in DOMAIN pendingChallenges :
          pendingChallenges[cid].challengerPaid
              => CountIn(prizes, RefundsOf(pendingChallenges[cid].obj)) <= 1
    /\ \A p \in BagToSet(prizes) : p.why = "decline" => p.amount = 200000

\* C4: a payment-confirmation callback delivered for a paymentId whose
\* PaymentRequest is already confirmed or failed changes no PaymentRequest and
\* no Challenge and makes no disbursement.
C4_TerminalCallbackIsNoOp ==
    [][\A pid \in PaymentIds, hash \in Hashes \cup {NoHash} :
          (Terminal(pid) /\ OnTransactionResponse(pid, hash))
              => UNCHANGED <<pendingPayments, pendingChallenges, confirmedPayments,
                             prizes>>]_vars

\* C5: the status of a PaymentRequest is monotonic: a PaymentRequest object of
\* pendingPayments that is confirmed or failed keeps that status for as long as
\* it is in the map.
C5_StatusMonotonic ==
    [][\A pid \in DOMAIN pendingPayments :
          (/\ Terminal(pid)
           /\ pid \in DOMAIN pendingPayments'
           /\ pendingPayments'[pid].obj = pendingPayments[pid].obj)
              => pendingPayments'[pid].status = pendingPayments[pid].status]_vars

\* a step that resumes the verification of payment pid with a success receipt
VerifiedSuccess(pid) ==
    \E h \in BagToSet(inflight) :
        h.kind = "tx" /\ h.pid = pid /\ ChainStatus(h.hash) = "success" /\ TxVerified(h, "success")

\* C6: a PaymentRequest becomes confirmed, and a Challenge paid flag becomes
\* true, only in a step where the chain verifier returned a success receipt for
\* the hash of that payment's callback.
C6_ConfirmedOnlyAfterSuccessReceipt ==
    [][/\ \A pid \in DOMAIN pendingPayments' :
            (pendingPayments'[pid].status = "confirmed"
                /\ ~(pid \in DOMAIN pendingPayments /\ pendingPayments[pid].status = "confirmed"))
            => VerifiedSuccess(pid)
       /\ \A pid \in confirmedPayments' \ confirmedPayments : VerifiedSuccess(pid)
       /\ \A cid \in DOMAIN pendingChallenges \cap DOMAIN pendingChallenges' :
            /\ (pendingChallenges'[cid].challengerPaid /\ ~pendingChallenges[cid].challengerPaid)
                    => VerifiedSuccess(ChallengeInitId(cid))
            /\ (pendingChallenges'[cid].targetPaid /\ ~pendingChallenges[cid].targetPaid)
                    => VerifiedSuccess(ChallengeAcceptId(cid))]_vars

\* the players whose gamesPlayed grows in a step: the submitter of a score
Submitters ==
    {u \in DOMAIN playerStats' :
        u \notin DOMAIN playerStats \/ playerStats'[u].gamesPlayed > playerStats[u].gamesPlayed}

\* C7: no solo score is accepted without a matching confirmed solo payment:
\* whenever a score submission is accepted as solo play (the jackpot grows),
\* the submitter has a confirmed 'play' PaymentRequest.
C7_SoloScoreNeedsConfirmedPayment ==
    [][jackpotPool' # jackpotPool =>
          \A u \in Submitters :
              \E pid \in DOMAIN pendingPayments :
                  /\ pendingPayments[pid].type = "play"
                  /\ pendingPayments[pid].userId = u
                  /\ pendingPayments[pid].status = "confirmed"]_vars

\* C8: at settlement payout + fee = 2 x wager, with fee = floor(pool/100) and
\* payout = pool - fee (pool 400000, fee 4000, payout 396000 for wager 200000);
\* the wager of a Challenge is the one set at creation and never changes.
C8_PayoutPlusFeeIsPool ==
    [][/\ \A cid \in DOMAIN pendingChallenges' :
            LET c == pendingChallenges'[cid]
                pool == 2 * c.wager
                fee == pool \div 100
            IN  CountIn(prizes', {p \in BagToSet(prizes') : p.why = "score" /\ p.cobj = c.obj})
                    > CountIn(prizes, PayoutsOf(c.obj))
                => \A p \in {q \in BagToSet(prizes') : q.why = "score" /\ q.cobj = c.obj} :
                      /\ p.amount + fee = pool
                      /\ p.amount = pool - fee
                      /\ c.wager = 200000 => (pool = 400000 /\ fee = 4000 /\ p.amount = 396000)
       /\ \A cid \in DOMAIN pendingChallenges' :
            /\ pendingChallenges'[cid].wager = CHALLENGE_FEE
            /\ (Live(cid) /\ pendingChallenges[cid].obj = pendingChallenges'[cid].obj)
                    => pendingChallenges'[cid].wager = pendingChallenges[cid].wager]_vars

\* C8 witness: the settlement of a live Challenge with both legs paid and both
\* scores known has run: its payout of 396000 is logged.
C8_Witness ==
    \E cid \in DOMAIN pendingChallenges :
        LET c == pendingChallenges[cid] IN
        /\ BothPaid(c) /\ BothFinished(c) /\ c.wager = 200000
        /\ \E p \in PayoutsOf(c.obj) : p.amount = 396000

\* C9: the winner of a challenge (with both legs paid) is sent the whole prize
\* pool of both wagers, 400000 units.
C9_WinnerTakesWholePool ==
    \A cid \in DOMAIN pendingChallenges :
        BothPaid(pendingChallenges[cid])
            => \A p \in PayoutsOf(pendingChallenges[cid].obj) : p.amount = 400000

\* C10: score fields are set-once: a score submission never changes a score
\* of a live Challenge (with both legs paid) that was already non-null.
C10_ScoresSetOnce ==
    [][totalGamesPlayed' # totalGamesPlayed =>
          \A cid \in DOMAIN pendingChallenges \cap DOMAIN pendingChallenges' :
              LET c == pendingChallenges[cid]
                  d == pendingChallenges'[cid]
              IN  BothPaid(c) =>
                      /\ c.challengerScore # NoScore => d.challengerScore = c.challengerScore
                      /\ c.targetScore # NoScore => d.targetScore = c.targetScore]_vars

\* C11: a live Challenge leaves pendingChallenges (is removed, or replaced by
\* another Challenge under its id) only in the step that ends its own decline
\* (after the refund attempt) or its own settlement.
C11_RemovedOnlyByDeclineOrSettlement ==
    [][\A cid \in DOMAIN pendingChallenges :
          (cid \notin DOMAIN pendingChallenges'
              \/ pendingChallenges'[cid].obj # pendingChallenges[cid].obj)
          => \E h \in BagToSet(inflight), o \in SendPrizeOutcomes :
                /\ h.cobj = pendingChallenges[cid].obj
                /\ DeclineRefunded(h, o) \/ SettlementPaid(h, o)]_vars

\* the PaymentRequest object that handler h holds is still the one in the map
Holds(h) == h.pid \in DOMAIN pendingPayments /\ pendingPayments[h.pid].obj = h.pobj

C13_ConfirmedLegMeansPaid ==
    \A pid \in DOMAIN pendingPayments :
        LET pp == pendingPayments[pid] IN
        (pp.status = "confirmed" /\ pp.type # "play" /\ Live(pp.challengeId)) =>
            IF pp.type = "challenge-initiator"
            THEN pendingChallenges[pp.challengeId].challengerPaid
            ELSE pendingChallenges[pp.challengeId].targetPaid

\* the submitter is the challenger or the target of the live Challenge cid
PartyTo(u, cid) ==
    /\ Live(cid)
    /\ u \in {pendingChallenges[cid].challengerId, pendingChallenges[cid].targetId}

\* C14: an accepted score submission whose challengeId does not resolve to a
\* live Challenge the submitter is party to is solo play: jackpotPool grows by
\* 10000; jackpotPool changes in no other case and never decreases.
C14_UnresolvedChallengeIdIsSolo ==
    [][/\ \A u \in Users, r \in ValidRequests, c \in ChallengeIds :
            (totalGamesPlayed' # totalGamesPlayed
                /\ OnScore(u, r.score, r.timestamp, NoName, c))
            => IF PartyTo(u, c)
               THEN jackpotPool' = jackpotPool
               ELSE jackpotPool' = jackpotPool + 10000
       /\ jackpotPool' # jackpotPool =>
            (jackpotPool' = jackpotPool + 10000 /\ totalGamesPlayed' # totalGamesPlayed)]_vars

\* C15: a score submission that names a live Challenge (with both legs paid)
\* the submitter is not party to leaves every Challenge as it is and starts no
\* settlement: no sendPrize call, no suspended handler, no win or loss counted.
C15_NonPartyScoreIsIgnored ==
    [][\A u \in Users, r \in ValidRequests, c \in ChallengeIds :
          (/\ Live(c)
           /\ BothPaid(pendingChallenges[c])
           /\ ~PartyTo(u, c)
           /\ OnScore(u, r.score, r.timestamp, NoName, c))
          => /\ pendingChallenges' = pendingChallenges
             /\ prizes' = prizes
             /\ inflight' = inflight
             /\ TotalWon' = TotalWon
             /\ TotalLost' = TotalLost]_vars

\* C16: a score submission with score < 0, score > 100000, timestamp < 0 or
\* timestamp more than 60000 ms ahead of the clock is answered with a client
\* error and changes no player record, counter, jackpot or Challenge.
C16_InvalidScoreChangesNothing ==
    [][(response' # response \/ totalGamesPlayed' # totalGamesPlayed) =>
          \A r \in {q \in ScoreRequests : \/ q.score < 0 \/ q.score > 100000
                                          \/ q.timestamp < 0
                                          \/ q.timestamp > now + 60000} :
              \A u \in Users, c \in ChallengeIds \cup {NoId} :
                  OnScore(u, r.score, r.timestamp, NoName, c)
                  => /\ response' = 400
                     /\ UNCHANGED <<playerStats, totalGamesPlayed, jackpotPool,
                                    pendingChallenges>>]_vars

\* C16 witness: a submission has just been rejected in a state that has player
\* records, a jackpot and a live Challenge holding a score.
C16_Witness ==
    /\ response = 400
    /\ totalGamesPlayed > 0
    /\ jackpotPool > 0
    /\ \E cid \in DOMAIN pendingChallenges :
          pendingChallenges[cid].challengerScore # NoScore

\* the challenge counters of a player in the stats map ps (0 without a record)
Won(ps, u) == IF u \in DOMAIN ps THEN ps[u].challengesWon ELSE 0
Lost(ps, u) == IF u \in DOMAIN ps THEN ps[u].challengesLost ELSE 0
Earned(ps, u) == IF u \in DOMAIN ps THEN ps[u].earnings ELSE 0
\* the step is a score submission that starts a settlement
Settles == totalGamesPlayed' # totalGamesPlayed /\ prizes' # prizes
\* the sendPrize call that the step makes
NewCalls == {p \in BagToSet(prizes') : CopiesIn(p, prizes') > CopiesIn(p, prizes)}
\* the challenge, after the step, that the call p belongs to
ChallengeOf(p) ==
    pendingChallenges'[CHOOSE cid \in DOMAIN pendingChallenges' :
                            pendingChallenges'[cid].obj = p.cobj]
OtherParty(c, u) == IF u = c.challengerId THEN c.targetId ELSE c.challengerId

\* C17: a settlement sends the prize to the challenger if and only if
\* challengerScore > targetScore; otherwise, also when the scores are equal,
\* to the target; the other party is the one who gets the loss.
C17_WinnerIsStrictlyGreaterElseTarget ==
    [][Settles =>
          \A p \in NewCalls :
              LET c == ChallengeOf(p) IN
              /\ p.to = c.challengerId <=> c.challengerScore[1] > c.targetScore[1]
              /\ p.to = c.targetId <=> c.challengerScore[1] <= c.targetScore[1]
              /\ Lost(playerStats', OtherParty(c, p.to))
                    = Lost(playerStats, OtherParty(c, p.to)) + 1]_vars

\* C17 witness: a Challenge with both legs paid and two equal scores whose
\* prize was sent to the target.
C17_Witness ==
    \E cid \in DOMAIN pendingChallenges :
        LET c == pendingChallenges[cid] IN
        /\ BothPaid(c) /\ BothFinished(c)
        /\ c.challengerScore = c.targetScore
        /\ \E p \in PayoutsOf(c.obj) : p.to = c.targetId
        /\ Lost(playerStats, c.challengerId) = 1

\* C18: a settlement updates exactly two player records: the winner's
\* challengesWon grows by 1 and earnings by the payout, the loser's
\* challengesLost by 1; the other win/loss/earnings fields of the two and those
\* of every other player stay, and no other step changes any of them.
C18_SettlementUpdatesWinnerAndLoser ==
    [][IF Settles
       THEN \A p \in NewCalls :
              LET c == ChallengeOf(p)
                  w == p.to
                  l == OtherParty(c, p.to)
              IN  /\ Won(playerStats', w) = Won(playerStats, w) + 1
                  /\ Earned(playerStats', w) = Earned(playerStats, w) + p.amount
                  /\ Lost(playerStats', w) = Lost(playerStats, w)
                  /\ Lost(playerStats', l) = Lost(playerStats, l) + 1
                  /\ Won(playerStats', l) = Won(playerStats, l)
                  /\ Earned(playerStats', l) = Earned(playerStats, l)
                  /\ \A u \in Users \ {w, l} :
                        /\ Won(playerStats', u) = Won(playerStats, u)
                        /\ Lost(playerStats', u) = Lost(playerStats, u)
                        /\ Earned(playerStats', u) = Earned(playerStats, u)
       ELSE \A u \in Users :
              /\ Won(playerStats', u) = Won(playerStats, u)
              /\ Lost(playerStats', u) = Lost(playerStats, u)
              /\ Earned(playerStats', u) = Earned(playerStats, u)]_vars

\* C18 witness: a paid Challenge has been settled while a third player has a
\* record: the winner has one win and the payout, the loser one loss.
C18_Witness ==
    \E cid \in DOMAIN pendingChallenges :
        LET c == pendingChallenges[cid] IN
        /\ BothPaid(c) /\ BothFinished(c)
        /\ \E p \in PayoutsOf(c.obj) :
              /\ Won(playerStats, p.to) = 1 /\ Earned(playerStats, p.to) = 396000
              /\ Lost(playerStats, OtherParty(c, p.to)) = 1
        /\ "carol" \in DOMAIN playerStats

\* the sum of the payouts to u that sendPrize confirmed with a transaction hash
ConfirmedTo(calls, u) ==
    LET S == {p \in BagToSet(calls) : p.why = "score" /\ p.to = u /\ p.result = "hash"}
    IN  SumOver(S, [p \in S |-> p.amount * CopiesIn(p, calls)])

\* C19: when the sendPrize call of a settlement (of a Challenge with both legs
\* paid) has returned, the earnings of the winner equal the sum of the payouts
\* to that player that were confirmed with a transaction hash: a failed
\* disbursement is not counted as earned.
C19_EarningsOnlyOnConfirmedPayout ==
    [][(prizes' # prizes /\ totalGamesPlayed' = totalGamesPlayed) =>
          \A h \in BagToSet(inflight) :
              (/\ h.kind = "score"
               /\ Live(h.cid)
               /\ pendingChallenges[h.cid].obj = h.cobj
               /\ BothPaid(pendingChallenges[h.cid])
               /\ \E o \in SendPrizeOutcomes : SettlementPaid(h, o))
              => Earned(playerStats', h.to) = ConfirmedTo(prizes', h.to)]_vars

\* the only live Challenge is cid, of alice against bob, with both legs paid
\* and no payment pending
ScenarioChallenge(cid) ==
    /\ DOMAIN pendingChallenges = {cid}
    /\ pendingChallenges[cid].challengerId = "alice"
    /\ pendingChallenges[cid].targetId = "bob"
    /\ pendingChallenges[cid].wager = 200000
    /\ BothPaid(pendingChallenges[cid])
    /\ DOMAIN pendingPayments = {}
\* the scenario before its last event: the challenger has submitted 800, the
\* target nothing; this is the only score submitted so far and no prize was sent
ScenarioBeforeTargetScore(cid) ==
    /\ totalGamesPlayed = 1
    /\ ScenarioChallenge(cid)
    /\ pendingChallenges[cid].challengerScore = Some(800)
    /\ pendingChallenges[cid].targetScore = NoScore
    /\ prizes = EmptyBag /\ inflight = EmptyBag
    /\ DOMAIN playerStats = {"alice"}
    /\ Won(playerStats, "alice") = 0 /\ Earned(playerStats, "alice") = 0
\* the scenario after the target's 650: the settlement waits for sendPrize
ScenarioSettling(cid) ==
    /\ totalGamesPlayed = 2
    /\ ScenarioChallenge(cid)
    /\ pendingChallenges[cid].challengerScore = Some(800)
    /\ pendingChallenges[cid].targetScore = Some(650)
    /\ BagToSet(prizes) = {[to |-> "alice", amount |-> 396000,
                            cobj |-> pendingChallenges[cid].obj, why |-> "score",
                            result |-> "pending", attempted |-> FALSE,
                            issued |-> FALSE]}
    /\ BagCardinality(prizes) = 1
    /\ BagCardinality(inflight) = 1
    /\ Won(playerStats, "alice") = 1 /\ Earned(playerStats, "alice") = 396000
    /\ Lost(playerStats, "alice") = 0
    /\ Lost(playerStats, "bob") = 1 /\ Won(playerStats, "bob") = 0
    /\ Earned(playerStats, "bob") = 0
\* the end of the scenario
ScenarioDone ==
    /\ totalGamesPlayed = 2
    /\ DOMAIN pendingChallenges = {}
    /\ BagCardinality(prizes) = 1
    /\ \A p \in BagToSet(prizes) :
          p.to = "alice" /\ p.amount = 396000 /\ p.why = "score" /\ p.result # "pending"
    /\ inflight = EmptyBag
    /\ Won(playerStats, "alice") = 1 /\ Earned(playerStats, "alice") = 396000
    /\ Lost(playerStats, "alice") = 0
    /\ Lost(playerStats, "bob") = 1 /\ Won(playerStats, "bob") = 0
    /\ Earned(playerStats, "bob") = 0

\* C20: on the trace challenger pays, target accepts, target pays, challenger
\* submits 800, target submits 650: the target's submission starts the one
\* settlement (payout of 396000 to the challenger, challenger earnings 396000
\* and one win, target one loss), and when its sendPrize returns the Challenge
\* is gone from pendingChallenges with that one payout attempt made.
C20_ScenarioChallengerWins ==
    [][\A cid \in DOMAIN pendingChallenges :
          /\ (ScenarioBeforeTargetScore(cid) /\ OnScore("bob", 650, now, NoName, cid))
                => ScenarioSettling(cid)'
          /\ (ScenarioSettling(cid)
                /\ \E h \in BagToSet(inflight), o \in SendPrizeOutcomes : SettlementPaid(h, o))
                => ScenarioDone']_vars

\* C20 witness: the scenario has run up to the target's 650: one challenge and
\* one accept were made, both payments were verified, the scores 800 and 650
\* are in the two players' records and the settlement is waiting for sendPrize.
C20_Witness ==
    \E cid \in DOMAIN pendingChallenges :
        /\ ScenarioSettling(cid)
        /\ nextObj = 3 /\ nCallbacks = 2
        /\ pendingChallenges[cid].challengerTxHash = "txA"
        /\ pendingChallenges[cid].targetTxHash = "txA"
        /\ DOMAIN playerStats = {"alice", "bob"}
        /\ playerStats["alice"].totalScore = 800
        /\ playerStats["bob"].totalScore = 650

\* a finished sendPrize call of a decline refund
RefundReturned(p) == p.why = "decline" /\ p.result # "pending"

\* C21: a step that is not an accepted score submission (challenge creation, a
\* payment callback and its verification, accept, decline and the return of its
\* refund) leaves every PlayerRecord as it was; in particular the return of a
\* decline refund changes no win, loss or earnings.
C21_RecordsChangeOnlyOnScoreSubmission ==
    [][/\ totalGamesPlayed' = totalGamesPlayed => playerStats' = playerStats
       /\ (\E p \in NewCalls : RefundReturned(p)) =>
             \A u \in Users : /\ Won(playerStats', u) = Won(playerStats, u)
                              /\ Lost(playerStats', u) = Lost(playerStats, u)
                              /\ Earned(playerStats', u) = Earned(playerStats, u)]_vars

\* C21 witness: a challenge was declined and its refund has returned while both
\* parties have a record with a played game.
C21_Witness ==
    /\ \E p \in BagToSet(prizes) : RefundReturned(p)
    /\ DOMAIN pendingChallenges = {}
    /\ \E q \in DOMAIN pendingPayments : pendingPayments[q].type = "challenge-acceptor"
    /\ {"alice", "bob"} \subseteq DOMAIN playerStats
    /\ \A u \in {"alice", "bob"} : playerStats[u].gamesPlayed > 0

\* C22: a live Challenge (both legs paid) that has both scores has its
\* settlement request still running: no failure during the settlement request
\* leaves such a Challenge in pendingChallenges.
C22_NoFinishedChallengeStaysLive ==
    \A cid \in DOMAIN pendingChallenges :
        LET c == pendingChallenges[cid] IN
        (BothPaid(c) /\ BothFinished(c)) =>
            \E h \in BagToSet(inflight) : h.kind = "score" /\ h.cobj = c.obj

\* the counters of a player, zero while the player has no record
Played(ps, u) == IF u \in DOMAIN ps THEN ps[u].gamesPlayed ELSE 0
Total(ps, u) == IF u \in DOMAIN ps THEN ps[u].totalScore ELSE 0
Best(ps, u) == IF u \in DOMAIN ps THEN ps[u].bestScore ELSE 0

\* C23: every accepted score submission adds 1 to the submitter's gamesPlayed,
\* adds the score to the submitter's totalScore, sets the submitter's bestScore
\* to the larger of its old value and the score, and adds 1 to
\* totalGamesPlayed.
C23_AcceptedScoreUpdatesCounters ==
    [][totalGamesPlayed' # totalGamesPlayed =>
        \A u \in Users, r \in ValidRequests, c \in ChallengeIds \cup {NoId} :
            OnScore(u, r.score, r.timestamp, NoName, c) =>
                /\ Played(playerStats', u) = Played(playerStats, u) + 1
                /\ Total(playerStats', u) = Total(playerStats, u) + r.score
                /\ Best(playerStats', u) =
                      (IF r.score > Best(playerStats, u) THEN r.score
                       ELSE Best(playerStats, u))
                /\ totalGamesPlayed' = totalGamesPlayed + 1]_vars

\* C23 witness: a player has submitted 800 and 650: two games, the total of
\* both and the best 800, after an accepted submission.
C23_Witness ==
    /\ response = 200
    /\ totalGamesPlayed >= 2
    /\ \E u \in DOMAIN playerStats :
          /\ playerStats[u].gamesPlayed = 2
          /\ playerStats[u].totalScore = 1450
          /\ playerStats[u].bestScore = 800

\* C24: a repeated accept does not replace an existing entry: on a step that
\* creates no Challenge, a paymentId that names the PaymentRequest of an accept
\* before the step and is present after it still names the same PaymentRequest
\* object.
C24_OpenNeverOverwrites ==
    [][pendingChallenges' = pendingChallenges =>
        \A pid \in DOMAIN pendingPayments \cap DOMAIN pendingPayments' :
            pendingPayments[pid].type = "challenge-acceptor" =>
                pendingPayments'[pid].obj = pendingPayments[pid].obj]_vars

\* the step is the return of a sendPrize call to its request
PrizeReturns == prizes' # prizes /\ totalGamesPlayed' = totalGamesPlayed
\* the returned sendPrize calls that ended without calling execute
Unattempted == {p \in BagToSet(prizes) : p.result # "pending" /\ ~p.attempted}

\* C25: sendPrize calls execute only if the recipient resolved to an address:
\* when the resolution gives no address the call returns null with execute
\* never called and no transfer issued, and a call that did call execute had
\* its recipient resolved.
C25_NoAddressNoTransfer ==
    [][PrizeReturns =>
        \A h \in BagToSet(inflight), o \in SendPrizeOutcomes :
            (SettlementPaid(h, o) \/ SettlementMessageFails(h, o)) =>
                \A p \in NewCalls :
                    /\ o = "no-account" =>
                          p.result = "null" /\ ~p.attempted /\ ~p.issued
                    /\ p.attempted => o \notin {"no-account", "resolve-error"}
                    /\ p.issued => p.attempted]_vars

\* C25 witness: a settlement whose winner has no on-chain address has returned
\* from sendPrize: the call is logged with null and nothing was sent.
C25_Witness ==
    /\ \E p \in Unattempted : p.why = "score" /\ p.result = "null" /\ ~p.issued
    /\ inflight = EmptyBag
    /\ response = 200

\* C26: sendPrize returns the hash exactly when the receipt of the transfer is
\* a success; on a resolution error, a submission error, a reverted receipt or
\* an error of the receipt wait it returns null, and the request that called
\* it goes on (deletes the Challenge and answers 200) rather than failing.
C26_HashOnlyOnSuccessReceipt ==
    [][PrizeReturns =>
        \A h \in BagToSet(inflight), o \in SendPrizeOutcomes :
            SettlementPaid(h, o) =>
                /\ \A p \in NewCalls :
                      /\ p.result = "hash" <=> o = "success"
                      /\ p.result = "null" <=> o # "success"
                /\ response' = 200
                /\ \A cid \in DOMAIN pendingChallenges' :
                      pendingChallenges'[cid].obj # h.cobj]_vars

\* C26 witness: a transfer was submitted and did not end in a success receipt:
\* the call is logged with null, and the settlement has finished with 200.
C26_Witness ==
    /\ \E p \in BagToSet(prizes) : p.why = "score" /\ p.issued /\ p.result = "null"
    /\ DOMAIN pendingChallenges = {}
    /\ inflight = EmptyBag
    /\ response = 200

\* the score of party u on challenge c, and that of the other party
OwnScore(c, u) == IF u = c.challengerId THEN c.challengerScore ELSE c.targetScore
OtherScore(c, u) == IF u = c.challengerId THEN c.targetScore ELSE c.challengerScore

\* C27: when a party submits a score on a Challenge whose other score is null,
\* the Challenge stays in pendingChallenges, changed only in that party's score,
\* no sendPrize call is made, no challengesWon, challengesLost or earnings
\* changes, and the response is 200 with challengeComplete = false.
C27_FirstScoreWaitsForOpponent ==
    [][totalGamesPlayed' # totalGamesPlayed =>
        \A cid \in DOMAIN pendingChallenges, u \in Users, r \in ValidRequests :
            LET c == pendingChallenges[cid] IN
            (/\ PartyTo(u, cid)
             /\ OtherScore(c, u) = NoScore
             /\ OnScore(u, r.score, r.timestamp, NoName, cid)) =>
                /\ cid \in DOMAIN pendingChallenges'
                /\ pendingChallenges'[cid] =
                      (IF u = c.challengerId
                       THEN [c EXCEPT !.challengerScore = <<r.score>>]
                       ELSE [c EXCEPT !.targetScore = <<r.score>>])
                /\ prizes' = prizes
                /\ inflight' = inflight
                /\ \A v \in Users : /\ Won(playerStats', v) = Won(playerStats, v)
                                    /\ Lost(playerStats', v) = Lost(playerStats, v)
                                    /\ Earned(playerStats', v) = Earned(playerStats, v)
                /\ response' = 200
                /\ body' = ScoreBody(FALSE)]_vars

\* C27 witness: on a Challenge with both legs paid the challenger has submitted
\* 800 and the target has not played: the Challenge is live with that score,
\* no sendPrize call was made and the last response said challengeComplete =
\* false.
C27_Witness ==
    \E cid \in DOMAIN pendingChallenges :
        LET c == pendingChallenges[cid] IN
        /\ BothPaid(c)
        /\ c.challengerScore = <<800>> /\ c.targetScore = NoScore
        /\ totalGamesPlayed = 1
        /\ prizes = EmptyBag
        /\ body = ScoreBody(FALSE)
        /\ Won(playerStats, c.challengerId) = 0 /\ Earned(playerStats, c.challengerId) = 0

\* C28: the display name of a PlayerRecord is last-seen-wins: after an accepted
\* score submission of a user that carries the display name d, the stored
\* displayName of that user is d.
C28_DisplayNameLastSeenWins ==
    [][totalGamesPlayed' # totalGamesPlayed =>
        \A u \in Users, r \in ValidRequests, d \in DisplayNames \ {NoName} :
            OnScore(u, r.score, r.timestamp, d, NoId) =>
                /\ u \in DOMAIN playerStats'
                /\ playerStats'[u].displayName = d]_vars

\* C29: a form response of a user who is not the target of the Challenge it
\* names, or that names no live Challenge, changes nothing: no PaymentRequest
\* is created, no refund is started and every Challenge stays as it was.
C29_ForeignFormResponseChangesNothing ==
    [][\A cid \in ChallengeIds, u \in Users, b \in Buttons :
          (/\ ~Live(cid) \/ u # pendingChallenges[cid].targetId
           /\ OnFormResponse(cid, u, b)) =>
              UNCHANGED <<pendingPayments, pendingChallenges, prizes, inflight,
                          nextObj, playerStats>>]_vars

\* C29 witness: a Challenge of alice to bob whose challenger leg is paid waits
\* for bob's answer, and carol, who is not its target, has the form: her
\* answer leaves this state as it is, with no accept payment and no refund.
C29_Witness ==
    \E cid \in DOMAIN pendingChallenges :
        LET c == pendingChallenges[cid] IN
        /\ c.challengerPaid /\ ~c.targetPaid
        /\ c.targetId = "bob"
        /\ ENABLED OnFormResponse(cid, "carol", "decline")
        /\ \A q \in DOMAIN pendingPayments : pendingPayments[q].type # "challenge-acceptor"
        /\ prizes = EmptyBag

\* the live Challenges with both legs paid that u is party to
PaidChallengesOf(u) ==
    {cid \in DOMAIN pendingChallenges :
        PartyTo(u, cid) /\ BothPaid(pendingChallenges[cid])}

\* C30: the challenge status poll of a user who is party to a live Challenge
\* with both legs paid answers hasChallenge = true and isPaid = true for such a
\* Challenge, with hasPlayed true exactly when the user's own score on it is
\* set, whatever other live Challenges the user is party to.
C30_PollFindsPaidChallenge ==
    [][\A u \in Users :
          (PaidChallengesOf(u) # {} /\ OnCheckChallenge(u)) =>
              /\ body'.hasChallenge
              /\ body'.isPaid
              /\ body'.challengeId \in PaidChallengesOf(u)
              /\ body'.hasPlayed =
                    (OwnScore(pendingChallenges[body'.challengeId], u) # NoScore)]_vars

\* the step runs the purge timer that was scheduled when paymentId pid got the
\* status st (the 5-minute timer of a confirmation, the 30-second timer of a
\* failure)
PurgeTimerFires(pid, st) ==
    \E t \in BagToSet(timers) :
        t.pid = pid /\ t.confirmed = (st = "confirmed") /\ TimerFires(t)

\* C31: a PaymentRequest that is confirmed or failed is read with that status
\* by the payment status poll after every step, until the purge timer of that
\* status fires (here on the steps that create no PaymentRequest).
C31_TerminalStatusReadableUntilPurge ==
    [][nextObj' = nextObj =>
        \A pid \in DOMAIN pendingPayments :
            (Terminal(pid) /\ ~PurgeTimerFires(pid, pendingPayments[pid].status))
                => checkPayment(pendingPayments', pid) = pendingPayments[pid].status]_vars

\* C32: a purge timer never removes a PaymentRequest whose status is pending:
\* when a timer fires, every pending entry of an accept (re-created by a second
\* accept after the first one failed, for a Challenge whose challenger has
\* paid) is still in pendingPayments, the same object.
C32_PurgeSparesPendingEntry ==
    [][\A t \in BagToSet(timers) :
          TimerFires(t) =>
              \A pid \in DOMAIN pendingPayments :
                  (/\ pendingPayments[pid].status = "pending"
                   /\ pendingPayments[pid].type = "challenge-acceptor"
                   /\ Live(pendingPayments[pid].challengeId)
                   /\ pendingChallenges[pendingPayments[pid].challengeId].challengerPaid) =>
                      /\ pid \in DOMAIN pendingPayments'
                      /\ pendingPayments'[pid].obj = pendingPayments[pid].obj]_vars

\* the refund calls that the step starts
NewRefunds == {p \in NewCalls : p.why = "decline" /\ p.result = "pending"}

\* C33: a refund of the wager is started only for a Challenge whose
\* challengerPaid flag is true: a decline response for a Challenge whose
\* challenger leg is not confirmed makes no sendPrize call.
C33_RefundOnlyOfPaidChallengerLeg ==
    [][\A p \in NewRefunds :
          \E cid \in DOMAIN pendingChallenges :
              /\ pendingChallenges[cid].obj = p.cobj
              /\ pendingChallenges[cid].challengerPaid]_vars

\* C34: a Challenge with both legs paid is not refunded and leaves
\* pendingChallenges only when its settlement returns from sendPrize: a
\* decline response after the target's leg is confirmed starts no refund and
\* removes nothing (here on the steps that create no Challenge).
C34_NoDeclineAfterTargetPaid ==
    [][\A cid \in DOMAIN pendingChallenges :
          LET c == pendingChallenges[cid] IN
          (/\ c.targetPaid /\ c.challengerPaid
           /\ c.challengerTxHash # c.targetTxHash
           /\ nextObj' = nextObj) =>
              /\ \A p \in NewRefunds : p.cobj # c.obj
              /\ \/ cid \in DOMAIN pendingChallenges' /\ pendingChallenges'[cid].obj = c.obj
                 \/ \E h \in BagToSet(inflight), o \in SendPrizeOutcomes :
                        h.cobj = c.obj /\ SettlementPaid(h, o)]_vars

\* C35: a transaction hash confirms at most one PaymentRequest: the two legs
\* of a Challenge, which are two PaymentRequests, are never both confirmed by
\* the same hash.
C35_HashConfirmsOnePayment ==
    \A cid \in DOMAIN pendingChallenges :
        LET c == pendingChallenges[cid] IN
        BothPaid(c) => c.challengerTxHash # c.targetTxHash

\* C36: under fairness of the awaits, a Challenge with both legs paid for which
\* both parties have submitted a score is eventually removed from
\* pendingChallenges.
C36_FinishedChallengeEventuallyRemoved ==
    \A cid \in ChallengeIds :
        (/\ Live(cid)
         /\ BothPaid(pendingChallenges[cid])
         /\ BothFinished(pendingChallenges[cid])) ~> ~Live(cid)

\* C37: a transaction response whose requestId is no key of pendingPayments
\* changes nothing: no PaymentRequest, Challenge, confirmedPayments member or
\* PlayerRecord is created or changed, no verification is started and no timer
\* is set.
C37_UnknownPaymentIdChangesNothing ==
    [][\A pid \in PaymentIds, hash \in Hashes \cup {NoHash} :
          (pid \notin DOMAIN pendingPayments /\ OnTransactionResponse(pid, hash)) =>
              UNCHANGED <<pendingPayments, pendingChallenges, confirmedPayments,
                          playerStats, inflight, timers, nCallbacks>>]_vars

\* C37 witness: the challenger's payment was verified and its PaymentRequest
\* deleted; a second transaction response for that requestId finds no entry
\* and leaves this state as it is.
C37_Witness ==
    \E cid \in DOMAIN pendingChallenges :
        /\ pendingChallenges[cid].challengerPaid
        /\ ChallengeInitId(cid) \notin DOMAIN pendingPayments
        /\ nCallbacks = 1
        /\ inflight = EmptyBag /\ timers = EmptyBag
        /\ ENABLED OnTransactionResponse(ChallengeInitId(cid), "txA")

\* C38: every Challenge in pendingChallenges has a challengerId different from
\* its targetId, and a /challenge command whose first mention is its issuer
\* creates neither a Challenge nor a PaymentRequest.
C38_NoSelfChallenge ==
    [][/\ \A cid \in DOMAIN pendingChallenges' :
             pendingChallenges'[cid].challengerId # pendingChallenges'[cid].targetId
       /\ \A u \in Users, m \in Mentions :
             (Len(m) > 0 /\ m[1] = u /\ OnChallengeCommand(u, m)) =>
                 UNCHANGED <<pendingChallenges, pendingPayments, nextObj>>]_vars

\* C38 witness: alice has challenged bob and may issue a command that mentions
\* herself first (an object is still free for it): the command leaves the one
\* Challenge, of alice against bob, as it is.
C38_Witness ==
    /\ DOMAIN pendingChallenges # {}
    /\ \A cid \in DOMAIN pendingChallenges :
          /\ pendingChallenges[cid].challengerId = "alice"
          /\ pendingChallenges[cid].targetId = "bob"
    /\ nextObj <= MaxObjects
    /\ <<"alice">> \in Mentions
    /\ ENABLED OnChallengeCommand("alice", <<"alice">>)

====
